---------------------------- MODULE Spec2Model ----------------------------
(***************************************************************************)
(* A model of logos (src/logos.go): the tokenizer, the StringPublication-  *)
(* Body cursor, the quality metrics and the n-gram Markov matrix.          *)
(*                                                                         *)
(* A Go string is a sequence of one-character strings, so that splitting   *)
(* and joining are computed and not assumed.  Go indices are 0-based; the  *)
(* element at Go index i of a slice s is s[i + 1] here.                    *)
(***************************************************************************)
EXTENDS Integers, Sequences, FiniteSets, TLC

\* Bounds of the model.
MaxInputLen == 5    \* characters of the text handed to CreateStringPubBody
MaxCount == 2       \* iterations of a loop, and calls in a log, that are followed
MaxN == 2           \* n-gram sizes 0..MaxN
MaxX == 1           \* thresholds 0..MaxX of WordsLongerThan
MaxSets == 2        \* SetProbability calls made on a matrix
MaxSize == 12       \* sizes 0..MaxSize of the n-grams that are encoded

NL == "\n"
Letters == {"a", "b"}
Chars == Letters \cup {" ", ".", NL}

RECURSIVE SeqsUpTo(_, _)
SeqsUpTo(S, n) ==
    IF n = 0 THEN {<<>>}
    ELSE LET shorter == SeqsUpTo(S, n - 1)
         IN shorter \cup {Append(s, c) : s \in shorter, c \in S}

Inputs == SeqsUpTo(Chars, MaxInputLen)

(***************************************************************************)
(* The tokenizer.                                                          *)
(***************************************************************************)
IsPunct(c) == c = "."
IsSpace(c) == c \in {" ", NL}

\* strings.FieldsFunc(line, f): the maximal runs of characters not
\* satisfying f; no empty field is produced.
RECURSIVE FieldsFunc(_, _, _)
FieldsFunc(s, cur, acc) ==
    IF s = <<>> THEN (IF cur = <<>> THEN acc ELSE Append(acc, cur))
    ELSE IF IsPunct(Head(s)) \/ IsSpace(Head(s))
         THEN FieldsFunc(Tail(s), <<>>, IF cur = <<>> THEN acc ELSE Append(acc, cur))
         ELSE FieldsFunc(Tail(s), Append(cur, Head(s)), acc)

splitWords(line) == FieldsFunc(line, <<>>, <<>>)

\* bufio.Scanner with its default split function: one token per line,
\* the newline dropped; a last line without newline is a token if non-empty.
RECURSIVE ScanLines(_, _, _)
ScanLines(data, cur, acc) ==
    IF data = <<>> THEN (IF cur = <<>> THEN acc ELSE Append(acc, cur))
    ELSE IF Head(data) = NL
         THEN ScanLines(Tail(data), <<>>, Append(acc, cur))
         ELSE ScanLines(Tail(data), Append(cur, Head(data)), acc)

\* A scan loop that appends every line and the words of the lines that have
\* some: the two sequences drift apart.
RECURSIVE KeepLinesUnaligned(_, _)
KeepLinesUnaligned(scanned, b) ==
    IF scanned = <<>> THEN b
    ELSE LET line == Head(scanned)
             lineWords == splitWords(line)
         IN KeepLinesUnaligned(Tail(scanned),
                IF Len(lineWords) > 0
                THEN [b EXCEPT !.Lines = Append(@, line),
                               !.Words = Append(@, lineWords)]
                ELSE [b EXCEPT !.Lines = Append(@, line)])

\* A scan loop that keeps every line, a line without words with an empty
\* word list.
RECURSIVE KeepLinesEveryLine(_, _)
KeepLinesEveryLine(scanned, b) ==
    IF scanned = <<>> THEN b
    ELSE KeepLinesEveryLine(Tail(scanned),
             [b EXCEPT !.Lines = Append(@, Head(scanned)),
                       !.Words = Append(@, splitWords(Head(scanned)))])

\* The scan loop of CreateStringPubBody: a line is appended, with its
\* words, only if it has at least one word.
RECURSIVE KeepLines(_, _)
KeepLines(scanned, b) ==
    IF scanned = <<>> THEN b
    ELSE LET line == Head(scanned)
             lineWords == splitWords(line)
         IN KeepLines(Tail(scanned),
                      IF Len(lineWords) > 0
                      THEN [b EXCEPT !.Lines = Append(@, line),
                                     !.Words = Append(@, lineWords)]
                      ELSE b)

CreateStringPubBody(in) ==
    KeepLines(ScanLines(in, <<>>, <<>>),
              [Lines |-> <<>>, Words |-> <<>>, CurrentLine |-> 0, CurrentWord |-> 0])

(***************************************************************************)
(* StringPublicationBody.  Every method is declared with a value           *)
(* receiver, func (s StringPublicationBody): it runs on a copy of the      *)
(* caller's struct.  A method is modelled by the copy as its body leaves   *)
(* it (field s of the result) and Receiver says what the caller keeps.     *)
(***************************************************************************)
Receiver(caller, copy) == caller

HasNextLine(s) == Len(s.Lines) > s.CurrentLine

\* A NextLine that answers the zero value when no line is left.
NextLineSilent(s) ==
    IF s.CurrentLine + 1 \in DOMAIN s.Lines
    THEN [ok |-> TRUE, ret |-> s.Lines[s.CurrentLine + 1],
          s |-> [s EXCEPT !.CurrentLine = @ + 1]]
    ELSE [ok |-> TRUE, ret |-> <<>>, s |-> s]

\* ok is FALSE when the index expression panics (index out of range).
NextLine(s) ==
    IF s.CurrentLine + 1 \in DOMAIN s.Lines
    THEN [ok |-> TRUE, ret |-> s.Lines[s.CurrentLine + 1],
          s |-> [s EXCEPT !.CurrentLine = @ + 1]]
    ELSE [ok |-> FALSE, ret |-> <<>>, s |-> s]

HasNextWord(s) ==
    IF Len(s.Lines) <= s.CurrentLine THEN FALSE
    ELSE \/ Len(s.Words[s.CurrentLine + 1]) > s.CurrentWord
         \/ Len(s.Lines) > s.CurrentLine + 1

NextWord(s) ==
    IF /\ s.CurrentLine + 1 \in DOMAIN s.Words
       /\ s.CurrentWord + 1 \in DOMAIN s.Words[s.CurrentLine + 1]
    THEN [ok |-> TRUE, ret |-> s.Words[s.CurrentLine + 1][s.CurrentWord + 1],
          s |-> IF Len(s.Words[s.CurrentLine + 1]) < s.CurrentWord + 1
                THEN [s EXCEPT !.CurrentLine = @ + 1, !.CurrentWord = 0]
                ELSE s]
    ELSE [ok |-> FALSE, ret |-> <<>>, s |-> s]

ResetSeeker(s) == [s EXCEPT !.CurrentLine = 0, !.CurrentWord = 0]

(***************************************************************************)
(* float64 values.  A count is exact in float64; a quotient is kept as the *)
(* fraction in lowest terms.  den = 0 stands for NaN (0/0) and +Inf (x/0). *)
(***************************************************************************)
RECURSIVE GCD(_, _)
GCD(a, b) == IF b = 0 THEN a ELSE GCD(b, a % b)

Float(n) == [num |-> n, den |-> 1]

Reduce(n, d) ==
    IF d = 0 THEN [num |-> IF n = 0 THEN 0 ELSE 1, den |-> 0]
    ELSE IF n = 0 THEN [num |-> 0, den |-> 1]
    ELSE [num |-> n \div GCD(n, d), den |-> d \div GCD(n, d)]

FAdd(x, y) == Reduce(x.num * y.den + y.num * x.den, x.den * y.den)

FDiv(x, y) == Reduce(x.num * y.den, x.den * y.num)

(***************************************************************************)
(* NGram and its encoding.                                                 *)
(***************************************************************************)
Digit == <<"0", "1", "2", "3", "4", "5", "6", "7", "8", "9">>

\* strconv.Itoa, of a non-negative int.
RECURSIVE Itoa(_)
Itoa(n) == IF n < 10 THEN <<Digit[n + 1]>> ELSE Append(Itoa(n \div 10), Digit[(n % 10) + 1])

\* strconv.Atoi with its error dropped: 0 for a string that is no number.
RECURSIVE AtoiFrom(_, _)
AtoiFrom(s, acc) ==
    IF s = <<>> THEN acc
    ELSE LET d == {i \in 1..10 : Digit[i] = Head(s)}
         IN IF d = {} THEN 0 ELSE AtoiFrom(Tail(s), 10 * acc + (CHOOSE i \in d : TRUE) - 1)

Atoi(s) == IF s = <<>> \/ \E i \in DOMAIN s : s[i] \notin {Digit[k] : k \in 1..10}
           THEN 0 ELSE AtoiFrom(s, 0)

\* strings.Join(parts, ".")
RECURSIVE Join(_)
Join(parts) ==
    IF parts = <<>> THEN <<>>
    ELSE IF Len(parts) = 1 THEN parts[1]
    ELSE parts[1] \o <<".">> \o Join(Tail(parts))

\* strings.Split(str, "."): every "." ends a part; the empty string gives
\* one empty part.
RECURSIVE Split(_, _, _)
Split(str, cur, acc) ==
    IF str = <<>> THEN Append(acc, cur)
    ELSE IF Head(str) = "." THEN Split(Tail(str), <<>>, Append(acc, cur))
    ELSE Split(Tail(str), Append(cur, Head(str)), acc)

\* A Hash that leaves the size out.
HashWordsOnly(n) == Join(n.Words)

Hash(n) == Join(<<Itoa(n.Size)>> \o n.Words)

HashToNGram(hash) ==
    LET s == Split(hash, <<>>, <<>>)
    IN [Size |-> Atoi(s[1]), Words |-> Tail(s)]

(***************************************************************************)
(* MarkovMatrix: Matrix is a map from a hash to a map from a hash to a     *)
(* float64.  A Go map is a reference, so SetProbability, although declared *)
(* with a value receiver, writes the caller's map; it is modelled by the   *)
(* map it leaves.                                                          *)
(***************************************************************************)
CreateMarkovMatrix == [Matrix |-> <<>>]

MapPut(f, k, v) == [x \in DOMAIN f \cup {k} |-> IF x = k THEN v ELSE f[x]]

\* A SetProbability that starts a new row map on every call.
SetProbabilityNewRow(m, i, j, prob) ==
    [m EXCEPT !.Matrix = MapPut(m.Matrix, Hash(i), MapPut(<<>>, Hash(j), prob))]

SetProbability(m, i, j, prob) ==
    LET entry == IF Hash(i) \in DOMAIN m.Matrix THEN m.Matrix[Hash(i)] ELSE <<>>
    IN [m EXCEPT !.Matrix = MapPut(m.Matrix, Hash(i), MapPut(entry, Hash(j), prob))]

GetProbability(m, i, j) ==
    IF Hash(i) \notin DOMAIN m.Matrix THEN Float(0)
    ELSE IF Hash(j) \in DOMAIN m.Matrix[Hash(i)] THEN m.Matrix[Hash(i)][Hash(j)]
    ELSE Float(0)

(***************************************************************************)
(* WordList.                                                               *)
(***************************************************************************)
ConstructWordList(ws) == [Words |-> [w \in {ws[k] : k \in DOMAIN ws} |-> TRUE]]

Contains(l, word) == IF word \in DOMAIN l.Words THEN l.Words[word] ELSE FALSE

(***************************************************************************)
(* The state: the reader's text, the body built from it, the call in       *)
(* progress (pc) with its arguments and locals, the value last returned.   *)
(* linesOut and wordsOut log what the caller's own NextLine and NextWord   *)
(* calls returned since its last ResetSeeker call (or the last call of a   *)
(* metric); stream logs what the call in progress has read so far.         *)
(***************************************************************************)
VARIABLES input, body, pc, x, list, ngramSize, count, sum, lines, words,
          prevNGram, matrix, result, linesOut, wordsOut, stream

(***************************************************************************)
(* The state of the specifications of the pure parts (the n-gram encoding  *)
(* and the matrix on its own): two n-grams g with their encodings hashed;  *)
(* the SetProbability calls made on matrix (sets), the last GetProbability *)
(* call (got) and the last normalization of matrix (normed).               *)
(***************************************************************************)
VARIABLES g, hashed, sets, got, normed

aux == <<g, hashed, sets, got, normed>>

vars == <<input, body, pc, x, list, ngramSize, count, sum, lines, words,
          prevNGram, matrix, result, linesOut, wordsOut, stream, aux>>

args == <<x, list, ngramSize>>
locals == <<count, sum, lines, words, prevNGram, matrix>>
logs == <<linesOut, wordsOut>>

NoResult == [fn |-> "none", val |-> Float(0)]
NoNGram == [Size |-> 0, Words |-> <<>>]

NotHashed == [done |-> FALSE, hash |-> <<>>, back |-> <<>>]
NotGot == [done |-> FALSE, i |-> NoNGram, j |-> NoNGram, val |-> Float(0)]
NoRes == [done |-> FALSE, m |-> CreateMarkovMatrix]

AuxInit ==
    /\ g = <<NoNGram, NoNGram>>
    /\ hashed = NotHashed
    /\ sets = <<>>
    /\ got = NotGot
    /\ normed = NoRes

WordLists == {ConstructWordList(ws) : ws \in SeqsUpTo({<<c>> : c \in Letters}, 1)}

Init ==
    /\ input \in Inputs
    /\ body = CreateStringPubBody(input)
    /\ pc = "idle"
    /\ x = 0 /\ list = ConstructWordList(<<>>) /\ ngramSize = 0
    /\ count = 0 /\ sum = 0 /\ lines = 0 /\ words = 0
    /\ prevNGram = NoNGram /\ matrix = CreateMarkovMatrix
    /\ result = NoResult
    /\ linesOut = <<>> /\ wordsOut = <<>> /\ stream = <<>>
    /\ AuxInit

(***************************************************************************)
(* The caller's own calls of the cursor.  A call that panics ends the      *)
(* program.  The logs are bounded by MaxCount.                             *)
(***************************************************************************)
CallNextLine ==
    /\ pc = "idle"
    /\ Len(linesOut) < MaxCount
    /\ LET r == NextLine(body)
       IN IF r.ok
          THEN /\ body' = Receiver(body, r.s)
               /\ linesOut' = Append(linesOut, r.ret)
               /\ pc' = pc
          ELSE /\ pc' = "panic"
               /\ UNCHANGED <<body, linesOut>>
    /\ UNCHANGED <<input, aux, args, locals, result, wordsOut, stream>>

CallNextWord ==
    /\ pc = "idle"
    /\ Len(wordsOut) < MaxCount
    /\ LET r == NextWord(body)
       IN IF r.ok
          THEN /\ body' = Receiver(body, r.s)
               /\ wordsOut' = Append(wordsOut, r.ret)
               /\ pc' = pc
          ELSE /\ pc' = "panic"
               /\ UNCHANGED <<body, wordsOut>>
    /\ UNCHANGED <<input, aux, args, locals, result, linesOut, stream>>

CallResetSeeker ==
    /\ pc = "idle"
    /\ body' = Receiver(body, ResetSeeker(body))
    /\ linesOut' = <<>>
    /\ wordsOut' = <<>>
    /\ UNCHANGED <<input, aux, pc, args, locals, result, stream>>

(***************************************************************************)
(* The metrics.  Each is a loop over the cursor: one step per iteration,   *)
(* and one for the return when the loop condition is false.  The model     *)
(* follows a loop for MaxCount iterations.                                 *)
(***************************************************************************)
Begin(fn) ==
    /\ pc = "idle"
    /\ pc' = fn
    /\ stream' = <<>>
    /\ linesOut' = <<>>
    /\ wordsOut' = <<>>
    /\ UNCHANGED <<input, aux, body, result>>

Return(fn, val) ==
    /\ pc' = "idle"
    /\ result' = [fn |-> fn, val |-> val]
    /\ UNCHANGED <<input, aux, body, args, locals, logs, stream>>

\* One read of the cursor inside a loop: the body and the stream after it.
Read(r) ==
    /\ Len(stream) < MaxCount
    /\ IF r.ok THEN /\ body' = Receiver(body, r.s)
                    /\ stream' = Append(stream, r.ret)
                    /\ pc' = pc
               ELSE /\ pc' = "panic"
                    /\ UNCHANGED <<body, stream>>
    /\ UNCHANGED <<input, aux, args, result, logs>>

WordCount ==
    \/ /\ Begin("WordCount")
       /\ count' = 0
       /\ UNCHANGED <<args, sum, lines, words, prevNGram, matrix>>
    \/ /\ pc = "WordCount" /\ HasNextWord(body)
       /\ Read(NextWord(body))
       /\ count' = IF NextWord(body).ok THEN count + 1 ELSE count
       /\ UNCHANGED <<sum, lines, words, prevNGram, matrix>>
    \/ /\ pc = "WordCount" /\ ~HasNextWord(body)
       /\ Return("WordCount", Float(count))

AverageWordsPerLine ==
    \/ /\ Begin("AverageWordsPerLine")
       /\ sum' = 0 /\ count' = 0
       /\ UNCHANGED <<args, lines, words, prevNGram, matrix>>
    \/ /\ pc = "AverageWordsPerLine" /\ HasNextLine(body)
       /\ Read(NextLine(body))
       /\ LET l == NextLine(body)
          IN IF l.ok THEN /\ sum' = sum + Len(splitWords(l.ret))
                          /\ count' = count + 1
                     ELSE UNCHANGED <<sum, count>>
       /\ UNCHANGED <<lines, words, prevNGram, matrix>>
    \/ /\ pc = "AverageWordsPerLine" /\ ~HasNextLine(body)
       /\ Return("AverageWordsPerLine", FDiv(Float(sum), Float(count)))

AverageWordLength ==
    \/ /\ Begin("AverageWordLength")
       /\ sum' = 0 /\ count' = 0
       /\ UNCHANGED <<args, lines, words, prevNGram, matrix>>
    \/ /\ pc = "AverageWordLength" /\ HasNextWord(body)
       /\ Read(NextWord(body))
       /\ LET w == NextWord(body)
          IN IF w.ok THEN /\ sum' = sum + Len(w.ret)
                          /\ count' = count + 1
                     ELSE UNCHANGED <<sum, count>>
       /\ UNCHANGED <<lines, words, prevNGram, matrix>>
    \/ /\ pc = "AverageWordLength" /\ ~HasNextWord(body)
       /\ Return("AverageWordLength", FDiv(Float(sum), Float(count)))

WordsLongerThan ==
    \/ /\ Begin("WordsLongerThan")
       /\ x' \in 0..MaxX
       /\ count' = 0
       /\ UNCHANGED <<list, ngramSize, sum, lines, words, prevNGram, matrix>>
    \/ /\ pc = "WordsLongerThan" /\ HasNextWord(body)
       /\ Read(NextWord(body))
       /\ LET w == NextWord(body)
          IN count' = IF w.ok /\ Len(w.ret) > x THEN count + 1 ELSE count
       /\ UNCHANGED <<sum, lines, words, prevNGram, matrix>>
    \/ /\ pc = "WordsLongerThan" /\ ~HasNextWord(body)
       /\ Return("WordsLongerThan", Float(count))

WordsIn ==
    \/ /\ Begin("WordsIn")
       /\ list' \in WordLists
       /\ count' = 0
       /\ UNCHANGED <<x, ngramSize, sum, lines, words, prevNGram, matrix>>
    \/ /\ pc = "WordsIn" /\ HasNextWord(body)
       /\ Read(NextWord(body))
       /\ LET w == NextWord(body)
          IN count' = IF w.ok /\ Contains(list, w.ret) THEN count + 1 ELSE count
       /\ UNCHANGED <<sum, lines, words, prevNGram, matrix>>
    \/ /\ pc = "WordsIn" /\ ~HasNextWord(body)
       /\ Return("WordsIn", Float(count))

(***************************************************************************)
(* ConstructMarkovMatrix.                                                  *)
(***************************************************************************)
\* The body of the word loop after w := p.NextWord(): the raw matrix it
\* leaves.  prevNGram is not assigned in the loop.
Observe(m, prev, n, w) ==
    LET newWords == Append(prev.Words, w)
    IN IF Len(newWords) = n + 1
       THEN LET ngram == [Size |-> n, Words |-> Tail(newWords)]
                curCount == GetProbability(m, prev, ngram)
            IN SetProbability(m, prev, ngram, FAdd(curCount, Float(1)))
       ELSE m

RECURSIVE SumOver(_, _)
SumOver(row, keys) ==
    IF keys = {} THEN Float(0)
    ELSE LET j == CHOOSE k \in keys : TRUE
         IN FAdd(row[j], SumOver(row, keys \ {j}))

\* A divisor taken over the whole table instead of over row i.
RECURSIVE SumRows(_, _)
SumRows(m, rows) ==
    IF rows = {} THEN Float(0)
    ELSE LET r == CHOOSE k \in rows : TRUE
         IN FAdd(SumOver(m.Matrix[r], DOMAIN m.Matrix[r]), SumRows(m, rows \ {r}))

TableTotal(m, i) == SumRows(m, DOMAIN m.Matrix)

\* total, for row i of the raw matrix
RowTotal(m, i) == SumOver(m.Matrix[i], DOMAIN m.Matrix[i])

\* The cells (i, j) the nested range loops visit.
Cells(m) == UNION {{<<i, j>> : j \in DOMAIN m.Matrix[i]} : i \in DOMAIN m.Matrix}

\* The two range loops that fill res, cell by cell.
RECURSIVE NormalizeCells(_, _, _)
NormalizeCells(m, cells, res) ==
    IF cells = {} THEN res
    ELSE LET c == CHOOSE d \in cells : TRUE
             ig == HashToNGram(c[1])
             jg == HashToNGram(c[2])
         IN NormalizeCells(m, cells \ {c},
                SetProbability(res, ig, jg, FDiv(GetProbability(m, ig, jg), RowTotal(m, c[1]))))

Normalize(m) == NormalizeCells(m, Cells(m), CreateMarkovMatrix)

ConstructMarkovMatrix ==
    \/ /\ Begin("ConstructMarkovMatrix")
       /\ ngramSize' \in 0..MaxN
       /\ prevNGram' = [Size |-> ngramSize', Words |-> <<>>]
       /\ matrix' = CreateMarkovMatrix
       /\ UNCHANGED <<x, list, count, sum, lines, words>>
    \/ /\ pc = "ConstructMarkovMatrix" /\ HasNextWord(body)
       /\ Read(NextWord(body))
       /\ LET w == NextWord(body)
          IN matrix' = IF w.ok THEN Observe(matrix, prevNGram, ngramSize, w.ret) ELSE matrix
       /\ UNCHANGED <<count, sum, lines, words, prevNGram>>
    \/ /\ pc = "ConstructMarkovMatrix" /\ ~HasNextWord(body)
       /\ Return("ConstructMarkovMatrix", Normalize(matrix))

(***************************************************************************)
(* countLinesWords of the test: reset, count the lines, reset, count the   *)
(* words.  The two loops have the same shape and share one step.           *)
(***************************************************************************)
countLinesWords ==
    \/ /\ pc = "idle"
       /\ pc' = "countLines"
       /\ body' = Receiver(body, ResetSeeker(body))
       /\ lines' = 0
       /\ stream' = <<>> /\ linesOut' = <<>> /\ wordsOut' = <<>>
       /\ UNCHANGED <<input, aux, args, count, sum, words, prevNGram, matrix, result>>
    \/ /\ pc = "countLines" /\ ~HasNextLine(body)
       /\ pc' = "countWords"
       /\ body' = Receiver(body, ResetSeeker(body))
       /\ words' = 0
       /\ stream' = <<>>
       /\ UNCHANGED <<input, aux, args, count, sum, lines, prevNGram, matrix, result, logs>>
    \/ /\ \/ pc = "countLines" /\ HasNextLine(body)
          \/ pc = "countWords" /\ HasNextWord(body)
       /\ LET r == IF pc = "countLines" THEN NextLine(body) ELSE NextWord(body)
          IN /\ Read(r)
             /\ lines' = IF pc = "countLines" /\ r.ok THEN lines + 1 ELSE lines
             /\ words' = IF pc = "countWords" /\ r.ok THEN words + 1 ELSE words
       /\ UNCHANGED <<count, sum, prevNGram, matrix>>
    \/ /\ pc = "countWords" /\ ~HasNextWord(body)
       /\ Return("countLinesWords", [lines |-> lines, words |-> words])

Next ==
    \/ CallNextLine
    \/ CallNextWord
    \/ CallResetSeeker
    \/ WordCount
    \/ AverageWordsPerLine
    \/ AverageWordLength
    \/ WordsLongerThan
    \/ WordsIn
    \/ ConstructMarkovMatrix
    \/ countLinesWords

Spec == Init /\ [][Next]_vars

(***************************************************************************)
(* What the properties speak of.                                           *)
(***************************************************************************)
RECURSIVE Flatten(_)
Flatten(ws) == IF ws = <<>> THEN <<>> ELSE Head(ws) \o Flatten(Tail(ws))

\* The word stream of the text and its length L.
WordStream == Flatten(body.Words)
TotalWords == Len(WordStream)
LineCount == Len(body.Lines)

IsPrefix(p, w) == Len(p) <= Len(w) /\ p = SubSeq(w, 1, Len(p))

WordLoops == {"WordCount", "AverageWordLength", "WordsLongerThan", "WordsIn",
              "ConstructMarkovMatrix"}

\* The caller's logs are those of a traversal from the initial (reset)
\* position: no metric has run in between.
FromReset == pc = "idle" /\ result = NoResult

\* A step in which the caller's own NextLine (NextWord) call returns: the
\* value returned is the last of the log.
NextLineReturns == pc = "idle" /\ Len(linesOut') = Len(linesOut) + 1
NextWordReturns == pc = "idle" /\ Len(wordsOut') = Len(wordsOut) + 1
Returned(log) == log[Len(log)]

\* C1: the line loop of countLinesWords counts exactly len(Lines) lines and
\* its word loop exactly the sum of the lines' token counts; so does a
\* caller's own guarded traversal from a reset cursor.  While a loop runs
\* its count has not passed that number, and the function returns the pair.
C1_TraversalCounts ==
    /\ pc = "countLines" => lines <= LineCount
    /\ pc = "countWords" => lines = LineCount /\ words <= TotalWords
    /\ result.fn = "countLinesWords" =>
           result.val = [lines |-> LineCount, words |-> TotalWords]
    /\ FromReset => Len(linesOut) <= LineCount /\ Len(wordsOut) <= TotalWords

\* C2: every loop over the cursor ends after a number of Next* calls bounded
\* by the number of lines (a line loop) or of words (a word loop): no metric
\* and no ConstructMarkovMatrix call has read more than that.
C2_BoundedReads ==
    /\ pc = "AverageWordsPerLine" => Len(stream) <= LineCount
    /\ pc \in WordLoops => Len(stream) <= TotalWords

\* C3: a NextLine call under HasNextLine returns Lines[c], c the line cursor
\* before the call, and leaves the line cursor at c + 1.
C3_NextLineAdvances ==
    [][NextLineReturns =>
          /\ HasNextLine(body)
          /\ Returned(linesOut') = body.Lines[body.CurrentLine + 1]
          /\ body'.CurrentLine = body.CurrentLine + 1]_vars

\* C4: a NextWord call under HasNextWord with the word cursor at (l, w)
\* returns Words[l][w] and leaves the cursor at (l + 1, 0) if w was the last
\* word of line l, at (l, w + 1) otherwise.
C4_NextWordAdvances ==
    [][NextWordReturns =>
          LET l == body.CurrentLine
              w == body.CurrentWord
          IN /\ HasNextWord(body)
             /\ Returned(wordsOut') = body.Words[l + 1][w + 1]
             /\ <<body'.CurrentLine, body'.CurrentWord>> =
                    IF w + 1 = Len(body.Words[l + 1]) THEN <<l + 1, 0>> ELSE <<l, w + 1>>]_vars

\* C5: after any guarded NextWord calls since the last reset, HasNextWord is
\* true exactly when a word of the text has not been returned yet.
C5_HasNextWordIffWordLeft ==
    FromReset => (HasNextWord(body) <=> Len(wordsOut) < TotalWords)

\* C6: line and word traversal are independent: a NextLine call or a reset
\* leaves the word cursor (line index, word index) where it was, a NextWord
\* call leaves the line cursor where it was, and the words returned since a
\* reset are the first words of the text whatever lines were read in
\* between; after a full line traversal the word traversal still returns
\* every word.
C6_IndependentCursors ==
    [][/\ NextLineReturns =>
              <<body'.CurrentLine, body'.CurrentWord>> = <<body.CurrentLine, body.CurrentWord>>
       /\ NextWordReturns => body'.CurrentLine = body.CurrentLine
       /\ (FromReset /\ Len(linesOut) = LineCount)' =>
              /\ IsPrefix(wordsOut', WordStream')
              /\ HasNextWord(body') <=> Len(wordsOut') < TotalWords']_vars

\* The n-gram of size n at Go index i of the stream w.
Window(w, n, i) == [Size |-> n, Words |-> SubSeq(w, i + 1, i + n)]

\* The number of transitions expected between from and to after the words w.
Transitions(w, n, from, to) ==
    Cardinality({i \in 0..(Len(w) - n - 1) : from = Window(w, n, i) /\ to = Window(w, n, i + 1)})

RawTotal(m) ==
    LET rows == DOMAIN m.Matrix
    IN IF rows = {} THEN Float(0)
       ELSE SumOver([i \in rows |-> RowTotal(m, i)], rows)

\* C7: for n >= 1 the raw count of (from, to) is the number of positions i
\* of the words read so far with from = w[i..i+n-1] and to = w[i+1..i+n]:
\* one transition per word from the (n+1)-th on, L - n in all.
C7_RawCounts ==
    (pc = "ConstructMarkovMatrix" /\ ngramSize >= 1) =>
        /\ \A i \in 0..(Len(stream) - ngramSize - 1) :
               LET from == Window(stream, ngramSize, i)
                   to == Window(stream, ngramSize, i + 1)
               IN GetProbability(matrix, from, to)
                      = Float(Transitions(stream, ngramSize, from, to))
        /\ RawTotal(matrix)
               = Float(IF Len(stream) > ngramSize THEN Len(stream) - ngramSize ELSE 0)

\* C8: the matrix built with n >= 1 from at least n + 1 words has at least
\* one row, and the weights of each of its rows sum to 1.
C8_RowsSumToOne ==
    (pc = "ConstructMarkovMatrix" /\ ngramSize >= 1 /\ Len(stream) >= ngramSize + 1) =>
        LET res == Normalize(matrix)
        IN /\ DOMAIN res.Matrix # {}
           /\ \A i \in DOMAIN res.Matrix : RowTotal(res, i) = Float(1)

\* C9: for n >= 1 and a text of L < n + 1 words ConstructMarkovMatrix(n)
\* returns, having read the L words and recorded nothing, a matrix with no
\* rows.
C9_ShortTextEmptyMatrix ==
    (ngramSize >= 1 /\ TotalWords < ngramSize + 1) =>
        /\ pc = "ConstructMarkovMatrix" =>
               Len(stream) <= TotalWords /\ DOMAIN matrix.Matrix = {}
        /\ result.fn = "ConstructMarkovMatrix" => DOMAIN result.val.Matrix = {}

\* C10: WordCount scans from a reset cursor whatever calls came before: it
\* counts each word of the text once and returns the total number of words.
C10_WordCountIsTotal ==
    /\ pc = "WordCount" => count <= TotalWords /\ IsPrefix(stream, WordStream)
    /\ result.fn = "WordCount" => result.val = Float(TotalWords)

\* The number of words of the stream w that are members of the list l.
Occurrences(w, l) == Cardinality({k \in DOMAIN w : Contains(l, w[k])})

\* C11: WordsIn(list) counts the occurrences, in the word stream of the
\* text, of the words that are in list: its count never passes that number
\* and it is the value returned (0 for the empty list, the number of words
\* for a list with every word of the text).
C11_WordsInCountsMembers ==
    /\ pc = "WordsIn" => count <= Occurrences(WordStream, list)
    /\ (pc = "idle" /\ result.fn = "WordsIn") =>
           result.val = Float(Occurrences(WordStream, list))

(***************************************************************************)
(* The matrix on its own: any SetProbability and GetProbability calls on a *)
(* matrix, with n-grams over tokenizer words and counts as values, and the *)
(* normalization of the table they leave.  The cursor takes no part.       *)
(***************************************************************************)
main == <<input, body, pc, x, list, ngramSize, count, sum, lines, words,
          prevNGram, result, linesOut, wordsOut, stream>>

MainInit ==
    /\ input = <<>>
    /\ body = CreateStringPubBody(input)
    /\ pc = "idle"
    /\ x = 0 /\ list = ConstructWordList(<<>>) /\ ngramSize = 0
    /\ count = 0 /\ sum = 0 /\ lines = 0 /\ words = 0
    /\ prevNGram = NoNGram
    /\ result = NoResult
    /\ linesOut = <<>> /\ wordsOut = <<>> /\ stream = <<>>

\* The initial window and the 1-grams of the words a and b.
MatrixNGrams ==
    {[Size |-> 1, Words |-> ws] : ws \in SeqsUpTo({<<c>> : c \in Letters}, 1)}

MatrixInit == MainInit /\ matrix = CreateMarkovMatrix /\ AuxInit

CallSetProbability ==
    /\ Len(sets) < MaxSets
    /\ \E i \in MatrixNGrams, j \in MatrixNGrams, prob \in {Float(1), Float(2)} :
           /\ matrix' = SetProbability(matrix, i, j, prob)
           /\ sets' = Append(sets, [i |-> i, j |-> j, prob |-> prob])
    /\ got' = NotGot
    /\ normed' = NoRes
    /\ UNCHANGED <<main, g, hashed>>

CallGetProbability ==
    /\ \E i \in MatrixNGrams, j \in MatrixNGrams :
           got' = [done |-> TRUE, i |-> i, j |-> j, val |-> GetProbability(matrix, i, j)]
    /\ UNCHANGED <<main, matrix, g, hashed, sets, normed>>

CallNormalize ==
    /\ normed' = [done |-> TRUE, m |-> Normalize(matrix)]
    /\ UNCHANGED <<main, matrix, g, hashed, sets, got>>

MatrixNext == CallSetProbability \/ CallGetProbability \/ CallNormalize

MatrixSpec == MatrixInit /\ [][MatrixNext]_vars

\* The value of the last SetProbability(i, j, v) call, 0.0 if there is none.
RECURSIVE LastSet(_, _, _)
LastSet(log, i, j) ==
    IF log = <<>> THEN Float(0)
    ELSE LET e == log[Len(log)]
         IN IF e.i = i /\ e.j = j THEN e.prob
            ELSE LastSet(SubSeq(log, 1, Len(log) - 1), i, j)

\* C12: after any SetProbability calls GetProbability(from, to) returns the
\* value of the most recent SetProbability(from, to, v), and 0.0 when there
\* is none (the row or the column is absent); the matrix has a row for the
\* n-grams that were set as from, and no other.
C12_GetReturnsLastSet ==
    /\ got.done => got.val = LastSet(sets, got.i, got.j)
    /\ DOMAIN matrix.Matrix = {Hash(sets[k].i) : k \in DOMAIN sets}

\* A pair set twice with two values is read; so is a pair never set.
C12_Witness ==
    /\ got.done
    /\ Len(sets) = 2
    /\ sets[1].i = sets[2].i /\ sets[1].j = sets[2].j /\ sets[1].prob # sets[2].prob
    /\ got.i = sets[1].i /\ got.j = sets[1].j

(***************************************************************************)
(* The n-gram encoding on its own: two n-grams whose words are tokenizer   *)
(* words (non-empty, without "."; a token may hold digits), of any size,   *)
(* the word list of the initial window (empty) included, are encoded and   *)
(* decoded.                                                                *)
(***************************************************************************)
Tokens == {<<"a">>, <<"1">>, <<"a", "b">>}

HashNGrams == {[Size |-> n, Words |-> ws] : n \in 0..MaxSize, ws \in SeqsUpTo(Tokens, MaxN)}

HashInit ==
    /\ MainInit /\ matrix = CreateMarkovMatrix
    /\ g \in HashNGrams \X HashNGrams
    /\ hashed = NotHashed
    /\ sets = <<>> /\ got = NotGot /\ normed = NoRes

HashRoundTrip ==
    /\ ~hashed.done
    /\ hashed' = [done |-> TRUE,
                  hash |-> <<Hash(g[1]), Hash(g[2])>>,
                  back |-> <<HashToNGram(Hash(g[1])), HashToNGram(Hash(g[2]))>>]
    /\ UNCHANGED <<main, matrix, g, sets, got, normed>>

HashNext == HashRoundTrip

HashSpec == HashInit /\ [][HashNext]_vars

\* C13: decoding the encoding of an n-gram of tokenizer words gives its
\* size and its words back, and two n-grams with one encoding are equal.
C13_HashRoundTrip ==
    hashed.done =>
        /\ \A k \in 1..2 : /\ hashed.back[k].Size = g[k].Size
                           /\ hashed.back[k].Words = g[k].Words
        /\ hashed.hash[1] = hashed.hash[2] => g[1] = g[2]

\* The initial window of a two-digit size and an n-gram of two words.
C13_Witness ==
    /\ hashed.done
    /\ g[1].Words = <<>> /\ g[1].Size >= 10
    /\ Len(g[2].Words) = 2 /\ g[2].Size = 2

(***************************************************************************)
(* The cursor at the end of the text, and the body as constructed.         *)
(***************************************************************************)
\* The body with its cursor (two exported fields) at any position.
Cursors(b) ==
    {[b EXCEPT !.CurrentLine = l, !.CurrentWord = w] :
        l \in 0..Len(b.Lines), w \in 0..MaxInputLen}

\* C14: where HasNextLine is false NextLine fails on its index, and where
\* HasNextWord is false NextWord fails on its index; no call made in such a
\* state returns a line or a word.
C14_ExhaustedCallsPanic ==
    [][/\ \A s \in Cursors(body) :
              /\ ~HasNextLine(s) => ~NextLine(s).ok
              /\ ~HasNextWord(s) => ~NextWord(s).ok
       /\ ~HasNextLine(body) => ~NextLineReturns
       /\ ~HasNextWord(body) => ~NextWordReturns]_vars

\* A call has failed on a body with nothing left.
C14_Witness ==
    /\ pc = "panic"
    /\ ~HasNextLine(body) /\ ~HasNextWord(body)
    /\ Len(ScanLines(input, <<>>, <<>>)) >= 2

\* C15: Lines holds, in input order, exactly the scanned lines that have at
\* least one word; Words has the same length, Words[i] is the token list of
\* Lines[i], and no token list is empty.
C15_LinesWordsAligned ==
    LET scanned == ScanLines(input, <<>>, <<>>)
        HasWord(l) == \E k \in DOMAIN l : ~IsPunct(l[k]) /\ ~IsSpace(l[k])
    IN /\ body.Lines = SelectSeq(scanned, HasWord)
       /\ Len(body.Words) = Len(body.Lines)
       /\ \A i \in DOMAIN body.Lines :
              /\ body.Words[i] = splitWords(body.Lines[i])
              /\ body.Words[i] # <<>>

\* A line without words between two retained lines has been dropped.
C15_Witness ==
    LET scanned == ScanLines(input, <<>>, <<>>)
    IN /\ Len(scanned) = 3
       /\ splitWords(scanned[2]) = <<>>
       /\ Len(body.Lines) = 2
       /\ linesOut = <<body.Lines[1]>>

\* C16: the words a caller has received since a reset are the first words of
\* Words[0] ++ Words[1] ++ ..., each once and in order, and when HasNextWord
\* turns false they are the whole concatenation.
C16_FullWordTraversal ==
    FromReset =>
        /\ IsPrefix(wordsOut, WordStream)
        /\ ~HasNextWord(body) => wordsOut = WordStream

\* C17: the line cursor is in 0..lineCount, HasNextLine is true exactly when
\* it is below lineCount, and after lineCount NextLine calls from a reset it
\* equals lineCount.
C17_LineCursorRange ==
    /\ body.CurrentLine \in 0..LineCount
    /\ HasNextLine(body) <=> body.CurrentLine < LineCount
    /\ (FromReset /\ Len(linesOut) = LineCount) => body.CurrentLine = LineCount

\* C18: wherever HasNextWord is true the word cursor (l, w) addresses an
\* existing word, l < lineCount and w < len(Words[l]), so a guarded NextWord
\* does not index out of range.
C18_GuardAddressesWord ==
    HasNextWord(body) =>
        /\ body.CurrentLine < LineCount
        /\ body.CurrentWord < Len(body.Words[body.CurrentLine + 1])
        /\ NextWord(body).ok

\* Guarded NextWord calls have been made on a text of two lines, the first
\* of them preceded by a line without words.
C18_Witness ==
    /\ HasNextWord(body)
    /\ Len(wordsOut) = MaxCount
    /\ LineCount >= 2
    /\ Len(ScanLines(input, <<>>, <<>>)) > LineCount

\* Cell (i, j) of m is present.
HasEntry(m, i, j) ==
    Hash(i) \in DOMAIN m.Matrix /\ Hash(j) \in DOMAIN m.Matrix[Hash(i)]

\* C19: the normalized matrix has an entry (from, to) exactly where the raw
\* count of (from, to) is at least 1, each weight is the raw count divided by
\* the sum of the raw counts of its row and lies in (0, 1], and an n-gram
\* that was only ever a 'to' has no row.
C19_NormalizePreservesSupport ==
    normed.done =>
        /\ \A i \in MatrixNGrams, j \in MatrixNGrams :
               /\ HasEntry(normed.m, i, j) <=> GetProbability(matrix, i, j).num >= 1
               /\ HasEntry(normed.m, i, j) =>
                      LET row == matrix.Matrix[Hash(i)]
                          weight == normed.m.Matrix[Hash(i)][Hash(j)]
                      IN /\ weight = FDiv(row[Hash(j)], SumOver(row, DOMAIN row))
                         /\ weight.den > 0
                         /\ 0 < weight.num /\ weight.num <= weight.den
        /\ DOMAIN normed.m.Matrix \subseteq {Hash(sets[k].i) : k \in DOMAIN sets}

\* Two rows have been normalized, one of them with a 'to' that is no 'from'.
C19_Witness ==
    /\ normed.done
    /\ Len(sets) = MaxSets
    /\ sets[1].i # sets[2].i
    /\ sets[1].j # sets[1].i /\ sets[1].j # sets[2].i
    /\ sets[1].prob # sets[2].prob

=============================================================================
